---- MODULE Spec2Model ----
(***************************************************************************)
(* A model of the LifeSharp front end: the tokenizer (lexer/mod.rs), its   *)
(* line input layer (lexer/input.rs), identifier validation                *)
(* (identifier.rs), the source printer (print.rs) and the printing of the  *)
(* syntax tree (ast.rs).                                                   *)
(*                                                                         *)
(* A code point is modelled as a string naming it: a printable ASCII       *)
(* character stands for itself, "LF", "CR" and "SP" are the line feed, the *)
(* carriage return and the space, "E_ACUTE" is U+00E9 (two UTF-8 bytes).   *)
(* A text is a sequence of code points.                                    *)
(***************************************************************************)
EXTENDS Integers, Sequences, FiniteSets, TLC

(***************************************************************************)
(* Bounds of the model.                                                    *)
(***************************************************************************)
MaxLen == 3        \* longest text over SmallAlphabet given to tokenize
MaxIoLen == 2      \* longest text read through a std::io::Lines source
MaxNest == 2       \* deepest nesting of the indentation sources
MaxCalls == 2      \* tokenize calls made by one caller
MaxCacheLen == 3   \* longest text in the cache-reuse specification
MaxCacheCalls == 3 \* tokenize calls in the cache-reuse specification
MaxIdLen == 3      \* longest enumerated text given to Id::new
MaxCursorLen == 3  \* longest line a cursor is run over on its own
MaxCursorLines == 2 \* lines cursors are created for in a row
UsizeBits == 6     \* the width of usize, scaled down
MaxUnwindLen == 4  \* longest text in the caught-panic specification
MaxUnwindCalls == 2 \* tokenize calls in the caught-panic specification
MaxLiveLen == 3    \* longest text in the termination specification
MaxPrintOps == 4   \* Printer operations called on one Printer
MaxAstDepth == 2   \* deepest nesting of if expressions in a function body

(***************************************************************************)
(* Code points and texts.                                                  *)
(***************************************************************************)
Symbols ==
    {"{", "}", "(", ")", "[", "]", "<", ">", "\\", "+", "-", "*", ";", "/",
     ".", "=", "&", "|"}

SmallAlphabet == {"{", "}", "LF", "CR", "SP", "#"}

CacheAlphabet == {"{", "}", "LF"}

\* the number of bytes of the UTF-8 encoding of a code point
Utf8Len(c) == IF c = "E_ACUTE" THEN 2 ELSE 1

RECURSIVE ByteLen(_)
ByteLen(text) ==
    IF text = <<>> THEN 0 ELSE Utf8Len(Head(text)) + ByteLen(Tail(text))

TextsUpTo(alphabet, n) == UNION {[1..k -> alphabet] : k \in 0..n}

\* the position (1-based) of the first line feed of a text, 0 when it has none
FirstLF(text) ==
    IF \E i \in 1..Len(text) : text[i] = "LF"
    THEN CHOOSE i \in 1..Len(text) :
            text[i] = "LF" /\ \A j \in 1..(i - 1) : text[j] # "LF"
    ELSE 0

\* a line that ended in a line feed loses one carriage return before it
StripCR(l) ==
    IF Len(l) > 0 /\ l[Len(l)] = "CR" THEN SubSeq(l, 1, Len(l) - 1) ELSE l

\* str::lines() and BufRead::lines(): the lines of a text, split at "LF" or
\* "CR" "LF"; a final line that no line feed ends is kept as it is
RECURSIVE Lines(_)
Lines(text) ==
    IF text = <<>> THEN <<>>
    ELSE LET i == FirstLF(text) IN
         IF i = 0 THEN <<text>>
         ELSE <<StripCR(SubSeq(text, 1, i - 1))>>
              \o Lines(SubSeq(text, i + 1, Len(text)))

(***************************************************************************)
(* Input sources.  kind "str" is a &str (std::str::Lines, which cannot     *)
(* fail); kind "io" is a std::io::Lines whose read number fail_at fails    *)
(* (0: no read fails).                                                     *)
(***************************************************************************)
StrSource(text) == [kind |-> "str", text |-> text, fail_at |-> 0]

IoSource(text, k) == [kind |-> "io", text |-> text, fail_at |-> k]

\* the error a failing read of the source gives
IoError(src) == [error |-> "io::Error", read |-> src.fail_at]

\* what the successive Input::next_line calls of a source answer, before End
RECURSIVE Items(_, _, _)
Items(ls, k, src) ==
    IF src.kind = "io" /\ k = src.fail_at
    THEN <<[kind |-> "Err", error |-> IoError(src)]>>
         \o Items(ls, k + 1, src)
    ELSE IF ls = <<>> THEN <<>>
    ELSE <<[kind |-> "More", line |-> Head(ls)]>>
         \o Items(Tail(ls), k + 1, src)

IntoInput(src) == Items(Lines(src.text), 1, src)

\* nesting sources: lines "{", " {", "  {", ... of depth 0..n, then "}"
RECURSIVE Spaces(_)
Spaces(d) == IF d = 0 THEN <<>> ELSE <<"SP">> \o Spaces(d - 1)

RECURSIVE NestedLines(_, _)
NestedLines(d, n) ==
    IF d > n THEN <<"}">>
    ELSE Spaces(d) \o <<"{", "LF">> \o NestedLines(d + 1, n)

NestedText(n) == NestedLines(0, n)

\* texts with a code point of two bytes
MultiByteTexts ==
    {<<"E_ACUTE">>, <<"{", "E_ACUTE">>, <<"E_ACUTE", "LF", "{">>,
     <<"{", "E_ACUTE", "LF", "}">>}

Sources ==
    {StrSource(t) : t \in TextsUpTo(SmallAlphabet, MaxLen)}
    \cup {StrSource(<<c>>) : c \in Symbols}
    \cup {StrSource(t) : t \in MultiByteTexts}
    \cup {StrSource(NestedText(n)) : n \in 1..MaxNest}
    \cup {IoSource(t, k) : t \in TextsUpTo(CacheAlphabet, MaxIoLen),
                           k \in 0..(MaxIoLen + 1)}

UnwindAlphabet == {"{", "#", "LF"}

UnwindSources == {StrSource(t) : t \in TextsUpTo(UnwindAlphabet, MaxUnwindLen)}

LiveAlphabet == {"{", ")", "LF", "CR"}

\* finite sources of recognized symbols and line breaks ("LF" or "CR" "LF"),
\* read from a &str or from a stream no read of which fails
LiveTexts ==
    {t \in TextsUpTo(LiveAlphabet, MaxLiveLen) :
        \A i \in 1..Len(t) : t[i] = "CR" => (i < Len(t) /\ t[i + 1] = "LF")}

LiveSources ==
    {StrSource(t) : t \in LiveTexts} \cup {IoSource(t, 0) : t \in LiveTexts}

CacheSources == {StrSource(t) : t \in TextsUpTo(CacheAlphabet, MaxCacheLen)}

(***************************************************************************)
(* location.rs                                                             *)
(***************************************************************************)
FIRST_NUMBER == 1

\* usize::MAX
UsizeMax == 2 ^ UsizeBits - 1

\* a + b on usize: a build with overflow checks panics when the sum does not
\* fit, a build without them wraps around
UsizeAdd(a, b, build) ==
    IF a + b > UsizeMax /\ build = "debug"
    THEN [kind |-> "Panic", message |-> "attempt to add with overflow"]
    ELSE [kind |-> "Ok", value |-> (a + b) % (2 ^ UsizeBits)]

\* a - b on usize, in the same way
UsizeSub(a, b, build) ==
    IF a < b /\ build = "debug"
    THEN [kind |-> "Panic", message |-> "attempt to subtract with overflow"]
    ELSE [kind |-> "Ok", value |-> (a - b + 2 ^ UsizeBits) % (2 ^ UsizeBits)]

\* NonZeroUsize::new
NumberNew(n) ==
    IF n = 0 THEN [kind |-> "None"] ELSE [kind |-> "Some", value |-> n]

\* an increment that wraps around: Number::new_unchecked(number.get() + 1)
\* without overflow checks
wrapping_increment(n, build) ==
    [kind |-> "Ok", value |-> (n + 1) % (2 ^ UsizeBits)]

\* increment_number: the Number it leaves in *number, or its panic
checked_increment(n, build) ==
    LET sum == UsizeAdd(n, 1, build) IN
    IF sum.kind = "Panic" THEN sum
    ELSE LET new == NumberNew(sum.value) IN
         IF new.kind = "None"
         THEN [kind |-> "Panic", message |-> "location number overflowed"]
         ELSE [kind |-> "Ok", value |-> new.value]

\* the Number increment_number leaves when it does not panic: the numbers
\* of a tokenize call of this model stay below usize::MAX
increment_number(n) == checked_increment(n, "release").value

(***************************************************************************)
(* The tokenizer's state.                                                  *)
(***************************************************************************)
VARIABLES
    pc,                 \* where the caller or tokenize stands
    calls,              \* tokenize calls made so far
    source,             \* the source of the current call
    mode,               \* "none": no cache; "fresh": a new Cache; "reuse"
    cache,              \* the caller's Cache: line_buffer and tokens
    owned,              \* owned_line_buffer and owned_tokens of the call
    input_pos,          \* lines the Input has answered so far
    current_line,       \* Wrapper.current_line
    next_byte_offset,
    current_indent_level,
    line,               \* the LineCharacters cursor of the current line
    result,             \* what tokenize returned
    fetched,            \* what the last input.next_line() returned
    stale,              \* the tokens the Cache held when the call began
    stale_line,         \* the line buffer the Cache held when the call began
    ref,                \* source and result of the last call on new storage
    id_input,           \* the text given to Id::new
    id_result,          \* what Id::new returned
    num_build,          \* "debug": overflow checks on; "release": off
    num_before,         \* the Number before the last increment_number
    number,             \* the Number increment_number works on
    num_status,         \* what the last increment_number did
    cur_line,           \* the line a LineCharacters cursor runs over
    cur_start,          \* the byte offset the cursor was created with
    cur,                \* the LineCharacters cursor
    cur_lines,          \* the lines cursors were created for so far
    printer,            \* the Printer: indent_level and write_indent
    trace,              \* the calls made on the Printer and what each wrote
    pr_status,          \* what the last Printer operation returned
    ast,                \* the syntax tree being printed
    ast_todo            \* the Printer operations its print has yet to make

lexvars ==
    <<pc, calls, source, mode, cache, owned, input_pos, current_line,
      next_byte_offset, current_indent_level, line, result, fetched, stale,
      stale_line, ref>>

idvars == <<id_input, id_result>>

numvars == <<num_build, num_before, number, num_status>>

curvars == <<cur_line, cur_start, cur, cur_lines>>

printvars == <<printer, trace, pr_status, ast, ast_todo>>

\* the state of the other components, which a step of tokenize leaves alone
othervars == <<idvars, numvars, curvars, printvars>>

vars == <<lexvars, idvars, numvars, curvars, printvars>>

None == [kind |-> "None"]

\* Cache::default(), and the owned buffers of a call without a cache
DefaultStorage == [line_buffer |-> <<>>, tokens |-> <<>>]

NoLine == [remaining |-> <<>>, column_number |-> FIRST_NUMBER, byte_offset |-> 0]

\* the buffers tokenize works on: the Cache's when it is given one
Storage == IF mode = "none" THEN owned ELSE cache

(***************************************************************************)
(* lexer/mod.rs: Token, LineCharacters and the pieces of tokenize.         *)
(***************************************************************************)
\* the match of tokenize: the Token of a code point, "todo" for the
\* wildcard arm todo!("other tokens")
TokenOfChar(c) ==
    CASE c = "{" -> "OpenCurlyBrace"
      [] c = "}" -> "CloseCurlyBrace"
      [] c = "(" -> "OpenParenthesis"
      [] c = ")" -> "CloseParenthesis"
      [] c = "[" -> "OpenSquareBracket"
      [] c = "]" -> "CloseSquareBracket"
      [] c = "<" -> "LessThan"
      [] c = ">" -> "GreaterThan"
      [] c = "\\" -> "BackwardSlash"
      [] c = "+" -> "PlusSign"
      [] c = "-" -> "MinusSign"
      [] c = "*" -> "Asterisk"
      [] c = ";" -> "Semicolon"
      [] c = "/" -> "ForwardSlash"
      [] c = "." -> "Period"
      [] c = "=" -> "Equals"
      [] c = "&" -> "Ampersand"
      [] c = "|" -> "VerticalBar"
      [] OTHER -> "todo"

\* a simple_token! whose range ends where it starts
SimpleToken_EmptyRange(name, start_byte_offset) ==
    [token |-> name,
     range |-> [start |-> start_byte_offset, end |-> start_byte_offset]]

\* simple_token!: the entry pushed for a one-character token
SimpleToken(name, start_byte_offset) ==
    [token |-> name,
     range |-> [start |-> start_byte_offset, end |-> start_byte_offset + 1]]

\* a cursor that counts the bytes of every line from 0
LineCharactersNew_FromZero(l, byte_offset) ==
    [remaining |-> l, column_number |-> FIRST_NUMBER, byte_offset |-> 0]

\* LineCharacters::new
LineCharactersNew(l, byte_offset) ==
    [remaining |-> l, column_number |-> FIRST_NUMBER, byte_offset |-> byte_offset]

\* a next_char whose column counts bytes
NextChar_ByteColumn(lc) ==
    IF lc.remaining = <<>> THEN None
    ELSE [kind |-> "Some",
          code_point |-> Head(lc.remaining),
          byte_offset |-> lc.byte_offset,
          next |-> [remaining |-> Tail(lc.remaining),
                    column_number |-> lc.column_number + Utf8Len(Head(lc.remaining)),
                    byte_offset |-> lc.byte_offset + 1]]

\* LineCharacters::next_char: None at the end of the line, else the code
\* point, the offset it starts at and the cursor after it
NextChar(lc) ==
    IF lc.remaining = <<>> THEN None
    ELSE [kind |-> "Some",
          code_point |-> Head(lc.remaining),
          byte_offset |-> lc.byte_offset,
          next |-> [remaining |-> Tail(lc.remaining),
                    column_number |-> increment_number(lc.column_number),
                    byte_offset |-> lc.byte_offset + 1]]

\* a tokenize that does not clear the tokens of the Cache
PrepareCache_NoClear(c) == c

\* what tokenize does to the Cache it is given before it scans
PrepareCache(c) == [c EXCEPT !.tokens = <<>>]

\* Output { tokens: tokens.clone().into_boxed_slice(), locations: () }
Output(tokens) == [kind |-> "Ok", tokens |-> tokens]

Panic(msg) == [kind |-> "Panic", message |-> msg]

(***************************************************************************)
(* lexer/input.rs: Wrapper::next_line.  The buffer is cleared, then the     *)
(* Input appends its next line to it; answers the line, None at the end of *)
(* the input, or the Input's error.                                        *)
(***************************************************************************)
\* a next_line that takes an error of the Input for the end of the input
WrapperNextLine_ErrIsEnd(items, pos, buffer, n) ==
    IF pos >= Len(items) \/ items[pos + 1].kind = "Err"
    THEN [kind |-> "None", buffer |-> <<>>, current_line |-> n]
    ELSE [kind |-> "Some", buffer |-> items[pos + 1].line,
          line_number |-> n, current_line |-> increment_number(n)]

\* a next_line that takes an empty line for the end of the input
WrapperNextLine_EmptyIsEnd(items, pos, buffer, n) ==
    IF pos >= Len(items) \/ (items[pos + 1].kind = "More" /\ items[pos + 1].line = <<>>)
    THEN [kind |-> "None", buffer |-> <<>>, current_line |-> n]
    ELSE IF items[pos + 1].kind = "Err"
    THEN [kind |-> "Err", error |-> items[pos + 1].error, buffer |-> <<>>,
          current_line |-> n]
    ELSE [kind |-> "Some", buffer |-> items[pos + 1].line,
          line_number |-> n, current_line |-> increment_number(n)]

\* a next_line that does not count the empty lines
WrapperNextLine_SkipsEmpty(items, pos, buffer, n) ==
    IF pos >= Len(items)
    THEN [kind |-> "None", buffer |-> <<>>, current_line |-> n]
    ELSE IF items[pos + 1].kind = "Err"
    THEN [kind |-> "Err", error |-> items[pos + 1].error, buffer |-> <<>>,
          current_line |-> n]
    ELSE [kind |-> "Some", buffer |-> items[pos + 1].line, line_number |-> n,
          current_line |-> IF items[pos + 1].line = <<>> THEN n
                           ELSE increment_number(n)]

\* a next_line that does not clear the buffer before the read
WrapperNextLine_NoClear(items, pos, buffer, n) ==
    IF pos >= Len(items)
    THEN [kind |-> "None", buffer |-> buffer, current_line |-> n]
    ELSE IF items[pos + 1].kind = "Err"
    THEN [kind |-> "Err", error |-> items[pos + 1].error, buffer |-> buffer,
          current_line |-> n]
    ELSE [kind |-> "Some", buffer |-> buffer \o items[pos + 1].line,
          line_number |-> n, current_line |-> increment_number(n)]

\* n is Wrapper.current_line; the answer carries the buffer and the
\* current_line the call leaves
WrapperNextLine(items, pos, buffer, n) ==
    LET cleared == <<>> IN
    IF pos >= Len(items)
    THEN [kind |-> "None", buffer |-> cleared, current_line |-> n]
    ELSE LET item == items[pos + 1] IN
         IF item.kind = "Err"
         THEN [kind |-> "Err", error |-> item.error, buffer |-> cleared,
               current_line |-> n]
         ELSE [kind |-> "Some", buffer |-> cleared \o item.line,
               line_number |-> n, current_line |-> increment_number(n)]

(***************************************************************************)
(* The steps of tokenize.                                                  *)
(***************************************************************************)
LexInit ==
    /\ pc = "idle"
    /\ calls = 0
    /\ source = StrSource(<<>>)
    /\ mode = "none"
    /\ cache = DefaultStorage
    /\ owned = DefaultStorage
    /\ input_pos = 0
    /\ current_line = FIRST_NUMBER
    /\ next_byte_offset = 0
    /\ current_indent_level = 0
    /\ line = NoLine
    /\ result = None
    /\ fetched = None
    /\ stale = <<>>
    /\ stale_line = <<>>
    /\ ref = None

IdInit ==
    /\ id_input = <<>>
    /\ id_result = None

NumInit ==
    /\ num_build = "debug"
    /\ num_before = FIRST_NUMBER
    /\ number = FIRST_NUMBER
    /\ num_status = [kind |-> "New"]

CurInit ==
    /\ cur_line = <<>>
    /\ cur_start = 0
    /\ cur = NoLine
    /\ cur_lines = 0

\* Printer::new; no tree is being printed
PrinterNew == [indent_level |-> 0, write_indent |-> TRUE]

PrintInit ==
    /\ printer = PrinterNew
    /\ trace = <<>>
    /\ pr_status = [kind |-> "New"]
    /\ ast = [kind |-> "None"]
    /\ ast_todo = <<>>

Init == LexInit /\ IdInit /\ NumInit /\ CurInit /\ PrintInit

SetStorage(s) ==
    IF mode = "none"
    THEN owned' = s /\ UNCHANGED cache
    ELSE cache' = s /\ UNCHANGED owned

\* tokenize is left by an error or a panic: the owned buffers are dropped,
\* the Cache keeps what it holds
Unwind(s) ==
    IF mode = "none"
    THEN owned' = DefaultStorage /\ UNCHANGED cache
    ELSE cache' = s /\ UNCHANGED owned

\* tokenize, up to the first input.next_line(): the buffers are taken from
\* the Cache or created, the Wrapper is built, the counters are set
Begin(src, m) ==
    /\ source' = src
    /\ mode' = m
    /\ stale' = IF m = "reuse" THEN cache.tokens ELSE <<>>
    /\ stale_line' = IF m = "reuse" THEN cache.line_buffer ELSE <<>>
    /\ fetched' = None
    /\ cache' = CASE m = "none" -> cache
                  [] m = "fresh" -> PrepareCache(DefaultStorage)
                  [] m = "reuse" -> PrepareCache(cache)
    /\ owned' = DefaultStorage
    /\ input_pos' = 0
    /\ current_line' = FIRST_NUMBER
    /\ next_byte_offset' = 0
    /\ current_indent_level' = 0
    /\ line' = NoLine
    /\ result' = None
    /\ pc' = "next_line"

Call ==
    /\ pc = "idle"
    /\ calls < MaxCalls
    /\ \E src \in Sources, m \in {"none", "fresh", "reuse"} : Begin(src, m)
    /\ calls' = calls + 1
    /\ UNCHANGED <<ref, othervars>>

\* while let Some((current_line, line_number)) = input.next_line()?
NextLine ==
    /\ pc = "next_line"
    /\ LET r == WrapperNextLine(IntoInput(source), input_pos,
                                Storage.line_buffer, current_line) IN
       /\ current_line' = r.current_line
       /\ CASE r.kind = "Some" ->
                 /\ SetStorage([Storage EXCEPT !.line_buffer = r.buffer])
                 /\ input_pos' = input_pos + 1
                 /\ fetched' = [kind |-> "Some", line |-> r.buffer,
                                line_number |-> r.line_number]
                 /\ line' = LineCharactersNew(r.buffer, next_byte_offset)
                 /\ pc' = "scan"
                 /\ UNCHANGED result
            [] r.kind = "None" ->
                 /\ SetStorage([Storage EXCEPT !.line_buffer = r.buffer])
                 /\ fetched' = None
                 /\ pc' = "return"
                 /\ UNCHANGED <<input_pos, line, result>>
            [] r.kind = "Err" ->
                 /\ Unwind([Storage EXCEPT !.line_buffer = r.buffer])
                 /\ input_pos' = input_pos + 1
                 /\ fetched' = [kind |-> "Err", error |-> r.error]
                 /\ result' = [kind |-> "Err", error |-> r.error]
                 /\ pc' = "done"
                 /\ UNCHANGED line
    /\ UNCHANGED <<calls, source, mode, next_byte_offset, current_indent_level,
                   stale, stale_line, ref, othervars>>

\* while let Some((code_point, start_byte_offset, remaining_line)) =
\* line.next_char() { match code_point { ... } }
Scan ==
    /\ pc = "scan"
    /\ LET n == NextChar(line) IN
       CASE n.kind = "None" ->
              /\ pc' = "end_line"
              /\ UNCHANGED <<cache, owned, line, result>>
         [] n.kind = "Some" /\ TokenOfChar(n.code_point) # "todo" ->
              /\ SetStorage([Storage EXCEPT !.tokens =
                    Append(@, SimpleToken(TokenOfChar(n.code_point), n.byte_offset))])
              /\ line' = n.next
              /\ pc' = "end_line"
              /\ UNCHANGED result
         [] OTHER ->
              /\ result' = Panic("not yet implemented: other tokens")
              /\ pc' = "done"
              /\ Unwind(Storage)
              /\ UNCHANGED line
    /\ UNCHANGED <<calls, source, mode, input_pos, current_line, next_byte_offset,
                   current_indent_level, fetched, stale, stale_line, ref,
                   othervars>>

\* the end of a line starts the scan of the same line again
EndLine_Rescan ==
    /\ pc = "end_line"
    /\ next_byte_offset' = line.byte_offset
    /\ pc' = "scan"
    /\ UNCHANGED <<calls, source, mode, cache, owned, input_pos, current_line,
                   current_indent_level, line, result, fetched, stale,
                   stale_line, ref, othervars>>

\* next_byte_offset = line.byte_offset;
EndLine ==
    /\ pc = "end_line"
    /\ next_byte_offset' = line.byte_offset
    /\ pc' = "next_line"
    /\ UNCHANGED <<calls, source, mode, cache, owned, input_pos, current_line,
                   current_indent_level, line, result, fetched, stale,
                   stale_line, ref, othervars>>

\* Ok(Output { .. })
Return ==
    /\ pc = "return"
    /\ result' = Output(Storage.tokens)
    /\ Unwind(Storage)
    /\ pc' = "done"
    /\ UNCHANGED <<calls, source, mode, input_pos, current_line,
                   next_byte_offset, current_indent_level, line, fetched, stale,
                   stale_line, ref, othervars>>

\* the caller is done with what tokenize returned
Forget ==
    /\ source' = StrSource(<<>>)
    /\ result' = None
    /\ input_pos' = 0
    /\ current_line' = FIRST_NUMBER
    /\ next_byte_offset' = 0
    /\ line' = NoLine
    /\ fetched' = None
    /\ stale' = <<>>
    /\ stale_line' = <<>>
    /\ pc' = "idle"
    /\ UNCHANGED <<calls, mode, cache, owned, current_indent_level, othervars>>

Drop ==
    /\ pc = "done"
    /\ result.kind # "Panic"
    /\ Forget
    /\ UNCHANGED ref

Next == Call \/ NextLine \/ Scan \/ EndLine \/ Return \/ Drop

Spec == Init /\ [][Next]_vars

(***************************************************************************)
(* A caller that catches the panic of a call that was given the Cache      *)
(* (std::panic::catch_unwind) and goes on with the Cache as the call left  *)
(* it: its line buffer holds the line the call panicked on.                *)
(***************************************************************************)
CallUnwind ==
    /\ pc = "idle"
    /\ calls < MaxUnwindCalls
    /\ \E src \in UnwindSources, m \in {"none", "fresh", "reuse"} : Begin(src, m)
    /\ calls' = calls + 1
    /\ UNCHANGED <<ref, othervars>>

CatchUnwind ==
    /\ pc = "done"
    /\ result.kind = "Panic"
    /\ mode # "none"
    /\ Forget
    /\ UNCHANGED ref

NextUnwind ==
    CallUnwind \/ NextLine \/ Scan \/ EndLine \/ Return \/ Drop \/ CatchUnwind

SpecUnwind == Init /\ [][NextUnwind]_vars

(***************************************************************************)
(* Termination.  tokenize is an ordinary synchronous function: once it is  *)
(* called, the thread that runs it takes its next step (read a line, scan, *)
(* leave the line, return) whenever one is possible.  The caller makes one *)
(* call.                                                                   *)
(***************************************************************************)
CallLive ==
    /\ pc = "idle"
    /\ calls = 0
    /\ \E src \in LiveSources, m \in {"none", "fresh", "reuse"} : Begin(src, m)
    /\ calls' = calls + 1
    /\ UNCHANGED <<ref, othervars>>

TokenizeStep == NextLine \/ Scan \/ EndLine \/ Return

NextLive == CallLive \/ NextLine \/ Scan \/ EndLine \/ Return \/ Drop

SpecLive == Init /\ [][NextLive]_vars /\ WF_vars(TokenizeStep)

(***************************************************************************)
(* A caller that reuses one Cache over several calls and keeps the Output  *)
(* of a call made on new storage (no cache, or a new Cache) to compare the *)
(* later Outputs with.                                                     *)
(***************************************************************************)
CallCache ==
    /\ pc = "idle"
    /\ calls < MaxCacheCalls
    /\ \E src \in CacheSources, m \in {"none", "fresh", "reuse"} : Begin(src, m)
    /\ calls' = calls + 1
    /\ UNCHANGED <<ref, othervars>>

Keep ==
    /\ pc = "done"
    /\ result.kind = "Ok"
    /\ mode \in {"none", "fresh"}
    /\ ref' = [kind |-> "Some", source |-> source, result |-> result]
    /\ Forget

NextCache == CallCache \/ NextLine \/ Scan \/ EndLine \/ Return \/ Drop \/ Keep

SpecCache == Init /\ [][NextCache]_vars

(***************************************************************************)
(* identifier.rs: Id::new.                                                 *)
(***************************************************************************)
AsciiLetters ==
    {"a", "b", "c", "d", "e", "f", "g", "h", "i", "j", "k", "l", "m", "n",
     "o", "p", "q", "r", "s", "t", "u", "v", "w", "x", "y", "z",
     "A", "B", "C", "D", "E", "F", "G", "H", "I", "J", "K", "L", "M", "N",
     "O", "P", "Q", "R", "S", "T", "U", "V", "W", "X", "Y", "Z"}

AsciiDigits == {"0", "1", "2", "3", "4", "5", "6", "7", "8", "9"}

\* char::is_alphabetic, which holds of letters outside ASCII too
is_alphabetic(c) == c \in AsciiLetters \cup {"E_ACUTE"}

is_ascii_alphabetic(c) == c \in AsciiLetters

is_ascii_digit(c) == c \in AsciiDigits

\* the closure given to find: is c, at code-point index i, not allowed
IsBad(i, c) ==
    ~(is_ascii_alphabetic(c) \/ c = "_") \/ (i = 0 /\ is_ascii_digit(c))

\* a search that answers the last code point the closure accepts
FindBad_Last(identifier) ==
    LET bad == {p \in 1..Len(identifier) : IsBad(p - 1, identifier[p])} IN
    IF bad = {} THEN None
    ELSE LET p == CHOOSE q \in bad : \A r \in bad : q >= r IN
         [kind |-> "Some", index |-> p - 1, code_point |-> identifier[p]]

\* identifier.chars().enumerate().find(..): the first (index, code point)
\* the closure accepts, None when there is none
FindBad(identifier) ==
    LET bad == {p \in 1..Len(identifier) : IsBad(p - 1, identifier[p])} IN
    IF bad = {} THEN None
    ELSE LET p == CHOOSE q \in bad : \A r \in bad : q <= r IN
         [kind |-> "Some", index |-> p - 1, code_point |-> identifier[p]]

\* Id::new_unchecked: an Id is its text (repr(transparent) over str)
new_unchecked(identifier) == [str |-> identifier]

as_str(id) == id.str

IdNew(identifier) ==
    LET found == FindBad(identifier) IN
    IF found.kind = "Some"
    THEN [kind |-> "Err",
          error |-> [kind |-> "InvalidCodePoint",
                     code_point |-> found.code_point, index |-> found.index]]
    ELSE IF identifier = <<>>
    THEN [kind |-> "Err", error |-> [kind |-> "Empty"]]
    ELSE [kind |-> "Ok", id |-> new_unchecked(identifier)]

IdAlphabet == {"a", "Z", "_", "1", "-", "E_ACUTE"}

\* the identifiers of examples/print.rs
ExampleIds ==
    {<<"n">>, <<"t", "e", "s", "t">>, <<"c", "o", "r", "e">>,
     <<"h", "e", "l", "p", "e", "r", "s">>, <<"M", "y", "T", "y", "p", "e">>}

\* further texts: "_x", "1abc", "my-type", and a digit after four letters
OtherIdTexts ==
    {<<"_", "x">>, <<"1", "a", "b", "c">>,
     <<"m", "y", "-", "t", "y", "p", "e">>, <<"u", "s", "i", "z", "e", "8">>}

IdTexts == TextsUpTo(IdAlphabet, MaxIdLen) \cup ExampleIds \cup OtherIdTexts

\* a caller calls Id::new on a text
IdCall ==
    /\ \E t \in IdTexts :
         /\ id_input' = t
         /\ id_result' = IdNew(t)
    /\ UNCHANGED <<lexvars, numvars, curvars, printvars>>

NextId == IdCall

SpecId == Init /\ [][NextId]_vars

(***************************************************************************)
(* location.rs: a caller increments a Number, which may be any NonZeroUsize, *)
(* until increment_number panics.                                          *)
(***************************************************************************)
InitNumber ==
    /\ LexInit /\ IdInit /\ CurInit /\ PrintInit
    /\ num_build \in {"debug", "release"}
    /\ number \in 1..UsizeMax
    /\ num_before = number
    /\ num_status = [kind |-> "New"]

Increment ==
    /\ num_status.kind # "Panic"
    /\ LET r == checked_increment(number, num_build) IN
       /\ num_before' = number
       /\ number' = IF r.kind = "Ok" THEN r.value ELSE number
       /\ num_status' = r
    /\ UNCHANGED <<num_build, lexvars, idvars, curvars, printvars>>

NextNumber == Increment

SpecNumber == InitNumber /\ [][NextNumber]_vars

(***************************************************************************)
(* lexer/mod.rs: LineCharacters on its own.  A cursor is created for a     *)
(* line at the offset the cursor of the line before stopped at, as tokenize *)
(* does, and advanced with next_char up to the end of the line.            *)
(***************************************************************************)
CursorAlphabet == {"{", "SP", "E_ACUTE"}

CursorLines == TextsUpTo(CursorAlphabet, MaxCursorLen)

CursorNew ==
    /\ cur_lines < MaxCursorLines
    /\ \E l \in CursorLines :
         /\ cur_line' = l
         /\ cur' = LineCharactersNew(l, cur.byte_offset)
    /\ cur_start' = cur.byte_offset
    /\ cur_lines' = cur_lines + 1
    /\ UNCHANGED <<lexvars, idvars, numvars, printvars>>

CursorAdvance ==
    /\ cur_lines >= 1
    /\ NextChar(cur).kind = "Some"
    /\ cur' = NextChar(cur).next
    /\ UNCHANGED <<cur_line, cur_start, cur_lines, lexvars, idvars, numvars,
                   printvars>>

NextCursor == CursorNew \/ CursorAdvance

SpecCursor == Init /\ [][NextCursor]_vars

(***************************************************************************)
(* print.rs: the Printer.  The trace holds, in order, every call made on   *)
(* the Printer (from "caller"), what the call wrote to the Formatter (ev   *)
(* "fmt": the indentation written by write_indentation as one entry of     *)
(* `units` writes of four spaces, the line feed of newline, the content of *)
(* a write) and an entry "err" after a call that returned an error.  A     *)
(* write to the Formatter can fail: `fail` is the number, within one call, *)
(* of the write that does (0: none).                                       *)
(***************************************************************************)
Event(e, f, u, t) == [ev |-> e, from |-> f, units |-> u, text |-> t]

CallEvent(e, t) == Event(e, "caller", 0, t)

Indentation(k) ==
    IF k = 0 THEN <<>> ELSE <<Event("fmt", "indentation", k, <<>>)>>

WriteOps == {"write_char", "write_str", "write_fmt"}

PrinterOps == {"indent", "dedent", "newline"} \cup WriteOps

\* self.indent_level += 1
indent(p, build) ==
    LET sum == UsizeAdd(p.indent_level, 1, build) IN
    IF sum.kind = "Panic" THEN sum
    ELSE [kind |-> "Ok", printer |-> [p EXCEPT !.indent_level = sum.value],
          out |-> <<>>]

\* self.indent_level -= 1
dedent(p, build) ==
    LET diff == UsizeSub(p.indent_level, 1, build) IN
    IF diff.kind = "Panic" THEN diff
    ELSE [kind |-> "Ok", printer |-> [p EXCEPT !.indent_level = diff.value],
          out |-> <<>>]

\* a write_indentation that leaves write_indent set
write_indentation_KeepsFlag(p, fail) ==
    IF ~p.write_indent
    THEN [kind |-> "Ok", printer |-> p, out |-> <<>>, writes |-> 0]
    ELSE IF fail \in 1..p.indent_level
    THEN [kind |-> "Err", printer |-> p, out |-> Indentation(fail - 1),
          writes |-> fail]
    ELSE [kind |-> "Ok", printer |-> p, out |-> Indentation(p.indent_level),
          writes |-> p.indent_level]

\* Printer::write_indentation: when write_indent is set, indent_level writes
\* of "    ", the first that fails returning its error, then the flag is
\* cleared
write_indentation(p, fail) ==
    IF ~p.write_indent
    THEN [kind |-> "Ok", printer |-> p, out |-> <<>>, writes |-> 0]
    ELSE IF fail \in 1..p.indent_level
    THEN [kind |-> "Err", printer |-> p, out |-> Indentation(fail - 1),
          writes |-> fail]
    ELSE [kind |-> "Ok", printer |-> [p EXCEPT !.write_indent = FALSE],
          out |-> Indentation(p.indent_level), writes |-> p.indent_level]

\* self.write_indentation()?; self.output.write_...(text)
WriteAfter(r, text, fail) ==
    IF r.kind = "Err" THEN [kind |-> "Err", printer |-> r.printer, out |-> r.out]
    ELSE IF fail = r.writes + 1
    THEN [kind |-> "Err", printer |-> r.printer, out |-> r.out]
    ELSE [kind |-> "Ok", printer |-> r.printer,
          out |-> r.out \o <<Event("fmt", "content", 0, text)>>]

\* a newline that does not ask for indentation
newline_NoFlag(p, fail) ==
    IF fail = 1 THEN [kind |-> "Err", printer |-> p, out |-> <<>>]
    ELSE [kind |-> "Ok", printer |-> p,
          out |-> <<Event("fmt", "newline", 0, <<"LF">>)>>]

\* Printer::newline
newline(p, fail) ==
    LET q == [p EXCEPT !.write_indent = TRUE] IN
    IF fail = 1 THEN [kind |-> "Err", printer |-> q, out |-> <<>>]
    ELSE [kind |-> "Ok", printer |-> q,
          out |-> <<Event("fmt", "newline", 0, <<"LF">>)>>]

\* Printer::write_char
write_char(p, c, fail) == WriteAfter(write_indentation(p, fail), <<c>>, fail)

\* Printer::write_str
write_str(p, str, fail) == WriteAfter(write_indentation(p, fail), str, fail)

\* Printer::write_fmt
write_fmt(p, f, fail) == WriteAfter(write_indentation(p, fail), f, fail)

\* one Printer operation, by name
PrinterCall(p, e, text, fail, build) ==
    CASE e = "indent" -> indent(p, build)
      [] e = "dedent" -> dedent(p, build)
      [] e = "newline" -> newline(p, fail)
      [] e = "write_char" -> write_char(p, Head(text), fail)
      [] e = "write_str" -> write_str(p, text, fail)
      [] e = "write_fmt" -> write_fmt(p, text, fail)

\* the writes of one call that are made to fail: none, the first or the
\* second, the last of the indentation, the content
Fails(p) == {0, 1, 2, p.indent_level, p.indent_level + 1}

\* the call e(text) is made on the Printer and the trace records it
PrinterStep(e, text, fail) ==
    LET r == PrinterCall(printer, e, text, fail, num_build) IN
    /\ pr_status' = [kind |-> r.kind]
    /\ printer' = IF r.kind = "Panic" THEN printer ELSE r.printer
    /\ trace' = trace \o <<CallEvent(e, text)>>
                  \o (IF r.kind = "Panic" THEN <<>> ELSE r.out)
                  \o (IF r.kind = "Err" THEN <<Event("err", e, 0, <<>>)>>
                      ELSE <<>>)

\* the calls made on the Printer so far
CallCount(tr) ==
    Cardinality({i \in 1..Len(tr) : tr[i].from = "caller"})

\* what the callers of this model pass to the write operations
WriteChars == {"x"}

WriteStrs == {<<>>, <<"x", "LF">>}

WriteFmts == {<<"x", "SP">>}

CanCall ==
    /\ pr_status.kind # "Panic"
    /\ CallCount(trace) < MaxPrintOps

CallIndent ==
    /\ CanCall
    /\ PrinterStep("indent", <<>>, 0)
    /\ UNCHANGED <<ast, ast_todo, lexvars, idvars, numvars, curvars>>

CallDedent ==
    /\ CanCall
    /\ PrinterStep("dedent", <<>>, 0)
    /\ UNCHANGED <<ast, ast_todo, lexvars, idvars, numvars, curvars>>

CallNewline ==
    /\ CanCall
    /\ \E fail \in {0, 1} : PrinterStep("newline", <<>>, fail)
    /\ UNCHANGED <<ast, ast_todo, lexvars, idvars, numvars, curvars>>

CallWriteChar ==
    /\ CanCall
    /\ \E c \in WriteChars, fail \in Fails(printer) :
          PrinterStep("write_char", <<c>>, fail)
    /\ UNCHANGED <<ast, ast_todo, lexvars, idvars, numvars, curvars>>

CallWriteStr ==
    /\ CanCall
    /\ \E str \in WriteStrs, fail \in Fails(printer) :
          PrinterStep("write_str", str, fail)
    /\ UNCHANGED <<ast, ast_todo, lexvars, idvars, numvars, curvars>>

CallWriteFmt ==
    /\ CanCall
    /\ \E f \in WriteFmts, fail \in Fails(printer) :
          PrinterStep("write_fmt", f, fail)
    /\ UNCHANGED <<ast, ast_todo, lexvars, idvars, numvars, curvars>>

InitPrinter ==
    /\ LexInit /\ IdInit /\ CurInit /\ PrintInit
    /\ num_build \in {"debug", "release"}
    /\ num_before = FIRST_NUMBER
    /\ number = FIRST_NUMBER
    /\ num_status = [kind |-> "New"]

NextPrinter ==
    CallIndent \/ CallDedent \/ CallNewline \/ CallWriteChar \/ CallWriteStr
    \/ CallWriteFmt

SpecPrinter == InitPrinter /\ [][NextPrinter]_vars

(***************************************************************************)
(* ast.rs: printing the syntax tree.  The print of a node is the sequence  *)
(* of Printer operations its Print impl makes when none of them fails;     *)
(* every one of them is followed by `?` (or is the value returned), so the *)
(* print stops at the first that returns an error.                         *)
(***************************************************************************)
Op(e, text) == <<[op |-> e, text |-> text]>>

RECURSIVE write_iter(_, _)
\* Printer::write_iter, over the prints of the items; the separator is a str
write_iter(content, separator) ==
    IF content = <<>> THEN <<>>
    ELSE IF Len(content) = 1 THEN Head(content)
    ELSE Head(content) \o Op("write_str", separator)
         \o write_iter(Tail(content), separator)

\* Print for identifier::Id, through Located
PrintId(id) == Op("write_str", id)

\* Print for PathId
PrintPathId(path) ==
    (IF path.global THEN Op("write_char", <<"\\">>) ELSE <<>>)
    \o write_iter([i \in 1..Len(path.identifiers) |->
                      PrintId(path.identifiers[i])], <<"\\">>)

\* Print for TypeId
PrintTypeId(t) ==
    PrintPathId(t.path) \o Op("write_str", <<":", ":">>) \o PrintId(t.name)

\* Print for Type; a primitive type prints its name
PrintType(t) ==
    IF t.node = "Primitive" THEN Op("write_str", t.name)
    ELSE PrintTypeId(t.id)

\* Print for GenericTypeConstraint, through Located
PrintGenericTypeConstraint(c) == PrintTypeId(c.implements)

\* Print for GenericParameterDefinition
PrintGenericParameterDefinition(g) ==
    (IF g.kind = "Type" THEN Op("write_char", <<"'">>)
     ELSE Op("write_char", <<"~">>))
    \o PrintId(g.name)
    \o (IF g.kind = "Type" /\ g.constraints # <<>>
        THEN Op("write_str", <<":", "SP">>)
             \o write_iter([i \in 1..Len(g.constraints) |->
                               PrintGenericTypeConstraint(g.constraints[i])],
                           <<",", "SP">>)
        ELSE <<>>)

\* Print for Pattern
PrintPattern(pattern) ==
    IF pattern.node = "Name" THEN PrintId(pattern.id)
    ELSE Op("write_char", <<"_">>)

\* Print for Parameter
PrintParameter(parameter) ==
    Op("write_char", <<"(">>) \o PrintPattern(parameter.pattern)
    \o Op("write_str", <<":", "SP">>) \o PrintType(parameter.argument_type)
    \o Op("write_char", <<")">>)

RECURSIVE PrintExpression(_)
RECURSIVE BlockLines(_)
\* for expression in block.iter() { expression.print(printer)?;
\* printer.newline()?; }
BlockLines(block) ==
    IF block = <<>> THEN <<>>
    ELSE PrintExpression(Head(block)) \o Op("newline", <<>>)
         \o BlockLines(Tail(block))

\* a print_block that returns without the dedent
print_block_NoDedent(block) == Op("indent", <<>>) \o BlockLines(block)

\* print_block
print_block(block) ==
    Op("indent", <<>>) \o BlockLines(block) \o Op("dedent", <<>>)

RECURSIVE OtherBranches(_)
\* for (other_condition, other_branch) in self.other_branches.iter()
OtherBranches(branches) ==
    IF branches = <<>> THEN <<>>
    ELSE Op("write_str", <<"e", "l", "i", "f", "SP">>)
         \o PrintExpression(Head(branches).condition)
         \o Op("write_str", <<"SP", "t", "h", "e", "n">>)
         \o Op("newline", <<>>)
         \o print_block(Head(branches).block)
         \o OtherBranches(Tail(branches))

\* Print for IfElseExpression
PrintIfElseExpression(x) ==
    Op("write_str", <<"i", "f", "SP">>)
    \o PrintExpression(x.condition)
    \o Op("write_str", <<"SP", "t", "h", "e", "n">>)
    \o Op("newline", <<>>)
    \o print_block(x.true_branch)
    \o OtherBranches(x.other_branches)
    \o Op("write_str", <<"e", "l", "s", "e">>)
    \o Op("newline", <<>>)
    \o print_block(x.else_branch)

\* Print for Expression
PrintExpression(x) ==
    CASE x.node = "BooleanLiteral" ->
            Op("write_str", IF x.value THEN <<"t", "r", "u", "e">>
                            ELSE <<"f", "a", "l", "s", "e">>)
      [] x.node = "IfElse" -> PrintIfElseExpression(x)
      [] x.node = "Name" -> PrintId(x.id)

\* Print for FunctionDefinition (and for TopDeclaration, which holds one)
PrintFunctionDefinition(f) ==
    Op("write_str", <<"d", "e", "f", "SP">>)
    \o PrintId(f.name)
    \o (IF f.generic_parameters # <<>>
        THEN Op("write_char", <<"<">>)
             \o write_iter([i \in 1..Len(f.generic_parameters) |->
                   PrintGenericParameterDefinition(f.generic_parameters[i])],
                   <<",", "SP">>)
             \o Op("write_char", <<">">>)
        ELSE <<>>)
    \o Op("write_char", <<"SP">>)
    \o (IF f.parameters = <<>> THEN Op("write_str", <<"(", ")">>)
        ELSE write_iter([i \in 1..Len(f.parameters) |->
                            PrintParameter(f.parameters[i])], <<"SP">>))
    \o (IF f.return_type.kind = "Some"
        THEN Op("write_char", <<"SP">>) \o PrintType(f.return_type.type)
        ELSE <<>>)
    \o Op("write_str", <<"SP", "=">>)
    \o Op("newline", <<>>)
    \o print_block(f.body)

RECURSIVE PrintDeclarations(_)
\* for declaration in self.declarations.iter() { declaration.print(printer)?;
\* printer.newline()?; printer.newline()?; }
PrintDeclarations(declarations) ==
    IF declarations = <<>> THEN <<>>
    ELSE PrintFunctionDefinition(Head(declarations))
         \o Op("newline", <<>>) \o Op("newline", <<>>)
         \o PrintDeclarations(Tail(declarations))

\* Print for Tree
PrintTree(tree) == PrintDeclarations(tree.declarations)

(***************************************************************************)
(* The trees that are printed: function definitions whose body nests if    *)
(* expressions up to MaxAstDepth deep, the nested block being the true     *)
(* branch, an elif branch or the else branch.                              *)
(***************************************************************************)
BooleanLiteral(v) == [node |-> "BooleanLiteral", value |-> v]

Name(id) == [node |-> "Name", id |-> id]

IfElse(c, t, o, e) ==
    [node |-> "IfElse", condition |-> c, true_branch |-> t,
     other_branches |-> o, else_branch |-> e]

Leaves == {BooleanLiteral(TRUE), Name(<<"x">>)}

\* a block that holds e: alone, or after another expression
BlocksOf(e) == {<<e>>, <<BooleanLiteral(FALSE), e>>}

ShallowBlock == <<Name(<<"y">>)>>

RECURSIVE Expressions(_)
Expressions(d) ==
    IF d = 0 THEN Leaves
    ELSE LET inner == UNION {BlocksOf(e) : e \in Expressions(d - 1)}
             c == BooleanLiteral(TRUE)
         IN Leaves
            \cup {IfElse(c, b, <<>>, <<>>) : b \in inner}
            \cup {IfElse(c, ShallowBlock,
                         <<[condition |-> Name(<<"x">>), block |-> b]>>,
                         ShallowBlock) : b \in inner}
            \cup {IfElse(c, <<>>, <<>>, b) : b \in inner}

Bodies == {<<>>} \cup UNION {BlocksOf(e) : e \in Expressions(MaxAstDepth)}

ShallowBodies == {<<>>} \cup UNION {BlocksOf(e) : e \in Expressions(1)}

BoolType == [node |-> "Primitive", name |-> <<"b", "o", "o", "l">>]

NamedType ==
    [node |-> "Named",
     id |-> [path |-> [global |-> TRUE, identifiers |-> <<<<"m">>, <<"n">>>>],
             name |-> <<"T">>]]

\* def f () = ...
PlainFunction(body) ==
    [name |-> <<"f">>, generic_parameters |-> <<>>, parameters |-> <<>>,
     return_type |-> [kind |-> "None"], body |-> body]

\* def g<'a: \m\n::T, ~b> (_: bool) (p: \m\n::T) bool = ...
FullFunction(body) ==
    [name |-> <<"g">>,
     generic_parameters |->
        <<[name |-> <<"a">>, kind |-> "Type",
           constraints |-> <<[implements |-> NamedType.id]>>],
          [name |-> <<"b">>, kind |-> "Lifetime", constraints |-> <<>>]>>,
     parameters |->
        <<[pattern |-> [node |-> "Ignore"], argument_type |-> BoolType],
          [pattern |-> [node |-> "Name", id |-> <<"p">>],
           argument_type |-> NamedType]>>,
     return_type |-> [kind |-> "Some", type |-> BoolType],
     body |-> body]

\* a tree without declarations, trees of one function with each of the
\* bodies, and trees of a function with generic parameters, parameters and
\* a return type, or of two functions, with the bodies that nest one deep
Trees ==
    {[kind |-> "Tree", declarations |-> <<>>]}
    \cup {[kind |-> "Tree", declarations |-> <<PlainFunction(b)>>] : b \in Bodies}
    \cup {[kind |-> "Tree", declarations |-> <<FullFunction(b)>>] :
             b \in ShallowBodies}
    \cup {[kind |-> "Tree",
           declarations |-> <<PlainFunction(b), PlainFunction(<<>>)>>] :
             b \in ShallowBodies}

\* Display::fmt of a Tree: Print::print(&self, &mut Printer::new(f))
PrintStart ==
    /\ ast.kind = "None"
    /\ \E tree \in Trees :
          /\ ast' = tree
          /\ ast_todo' = PrintTree(tree)
    /\ UNCHANGED <<printer, trace, pr_status, lexvars, idvars, numvars, curvars>>

\* the next Printer operation of the print; after one that returned an
\* error the print has returned it
PrintStep ==
    /\ ast.kind = "Tree"
    /\ ast_todo # <<>>
    /\ pr_status.kind \in {"New", "Ok"}
    /\ \E fail \in Fails(printer) :
          PrinterStep(Head(ast_todo).op, Head(ast_todo).text, fail)
    /\ ast_todo' = Tail(ast_todo)
    /\ UNCHANGED <<ast, lexvars, idvars, numvars, curvars>>

NextAst == PrintStart \/ PrintStep

SpecAst == InitPrinter /\ [][NextAst]_vars

(***************************************************************************)
(* Properties.                                                             *)
(***************************************************************************)
Returned == pc = "done"

\* the read of the source that fails is reached by tokenize
ReadFails(src) ==
    src.kind = "io" /\ src.fail_at \in 1..(Len(Lines(src.text)) + 1)

ReturnedOk == pc = "done" /\ result.kind = "Ok"

\* the tests of lexer/mod.rs: a one-character input and the token expected
SingleTokenTests ==
    {<<"{", "OpenCurlyBrace">>, <<"}", "CloseCurlyBrace">>,
     <<"(", "OpenParenthesis">>, <<")", "CloseParenthesis">>,
     <<"[", "OpenSquareBracket">>, <<"]", "CloseSquareBracket">>,
     <<"<", "LessThan">>, <<">", "GreaterThan">>,
     <<"\\", "BackwardSlash">>, <<"+", "PlusSign">>, <<"-", "MinusSign">>,
     <<"*", "Asterisk">>, <<";", "Semicolon">>, <<"/", "ForwardSlash">>,
     <<".", "Period">>, <<"=", "Equals">>, <<"&", "Ampersand">>,
     <<"|", "VerticalBar">>}

\* C1: tokenize of a one-character source holding one of the 18 symbols,
\* with no cache, returns Ok with exactly one entry: the symbol's token with
\* the range [0, 1).
C1_SingleSymbol ==
    /\ {t[1] : t \in SingleTokenTests} = Symbols
    /\ \A t \in SingleTokenTests :
         (Returned /\ mode = "none" /\ source = StrSource(<<t[1]>>)) =>
            result = [kind |-> "Ok",
                      tokens |-> <<[token |-> t[2],
                                    range |-> [start |-> 0, end |-> 1]]>>]

C1_Witness ==
    /\ Returned /\ mode = "none" /\ source = StrSource(<<"|">>)
    /\ result.kind = "Ok" /\ Len(result.tokens) = 1

\* C2: in every stream tokenize returns, each range has start <= end and
\* each entry ends no later than the next one starts.
C2_RangesOrdered ==
    ReturnedOk =>
       /\ \A i \in 1..Len(result.tokens) :
             result.tokens[i].range.start <= result.tokens[i].range.end
       /\ \A i \in 1..(Len(result.tokens) - 1) :
             result.tokens[i].range.end <= result.tokens[i + 1].range.start

\* a stream of two entries from two lines, returned by a call that reused a
\* Cache holding the tokens of an earlier call
C2_Witness ==
    /\ ReturnedOk /\ mode = "reuse" /\ stale # <<>>
    /\ Len(result.tokens) >= 2
    /\ Len(Lines(source.text)) >= 2

\* the byte offset at which the code point at position p of a text starts
OffsetOf(text, p) == ByteLen(SubSeq(text, 1, p - 1))

\* C3: every entry returned has the range of bytes, in the source text, of
\* an occurrence of its token's symbol: start is the offset of the symbol's
\* first byte, line terminators counted, and end is one past its last byte.
C3_RangesAreSourceOffsets ==
    ReturnedOk =>
       \A i \in 1..Len(result.tokens) :
          \E p \in 1..Len(source.text) :
             /\ TokenOfChar(source.text[p]) = result.tokens[i].token
             /\ result.tokens[i].range.start = OffsetOf(source.text, p)
             /\ result.tokens[i].range.end = OffsetOf(source.text, p + 1)

\* a text made only of the symbols and of line breaks ("LF" or "CR" "LF")
OnlySymbolsAndBreaks(text) ==
    \A p \in 1..Len(text) :
       \/ text[p] \in Symbols
       \/ text[p] = "LF"
       \/ text[p] = "CR" /\ p < Len(text) /\ text[p + 1] = "LF"

IsSymbol(c) == c \in Symbols

\* C4: for a source that supplies every line and is made only of symbols and
\* line breaks, tokenize returns
\* one entry per symbol occurrence, in source order, each one byte wide.
C4_OneEntryPerSymbol ==
    (Returned /\ ~ReadFails(source) /\ OnlySymbolsAndBreaks(source.text)) =>
       /\ result.kind = "Ok"
       /\ LET symbols == SelectSeq(source.text, IsSymbol) IN
          /\ Len(result.tokens) = Len(symbols)
          /\ \A i \in 1..Len(symbols) :
                /\ result.tokens[i].token = TokenOfChar(symbols[i])
                /\ result.tokens[i].range.end = result.tokens[i].range.start + 1

\* C5: a call that returns Ok returns what an earlier call on new storage
\* (no cache, or a new Cache) returned for the same source, whatever the
\* Cache held when the call began.
C5_CacheReuse ==
    (ReturnedOk /\ ref.kind = "Some" /\ ref.source = source) =>
       result = ref.result

\* B was tokenized on new storage, then another source with the Cache, then
\* B with the Cache, which still held the other source's tokens
C5_Witness ==
    /\ ReturnedOk /\ mode = "reuse"
    /\ ref.kind = "Some" /\ ref.source = source
    /\ result.tokens # <<>>
    /\ stale # <<>> /\ stale # result.tokens
    /\ \A i \in 1..Len(stale) : \A j \in 1..Len(result.tokens) :
          stale[i].token # result.tokens[j].token

\* a code point the language has no use for: not a symbol, a line break or
\* a space
Unrecognized(c) == c \notin Symbols \cup {"LF", "CR", "SP"}

HasUnrecognized(text) == \E p \in 1..Len(text) : Unrecognized(text[p])

FirstUnrecognized(text) ==
    CHOOSE p \in 1..Len(text) :
       Unrecognized(text[p]) /\ \A q \in 1..(p - 1) : ~Unrecognized(text[q])

\* C6: when the source holds an unrecognized code point, tokenize returns an
\* error value that carries the first such code point and its byte offset.
C6_UnrecognizedIsError ==
    (Returned /\ source.kind = "str" /\ HasUnrecognized(source.text)) =>
       /\ result.kind = "Err"
       /\ LET p == FirstUnrecognized(source.text) IN
          result.error = [code_point |-> source.text[p],
                          offset |-> OffsetOf(source.text, p)]

CountTokens(tokens, name) ==
    Cardinality({i \in 1..Len(tokens) : tokens[i].token = name})

\* C7: for a source of N lines of increasing indent after the first,
\* followed by a line back at the base indent, tokenize returns exactly N
\* Indent and N Dedent tokens.
C7_IndentBalance ==
    \A n \in 1..MaxNest :
       (Returned /\ source = StrSource(NestedText(n))) =>
          /\ result.kind = "Ok"
          /\ CountTokens(result.tokens, "Indent") = n
          /\ CountTokens(result.tokens, "Dedent") = n

IdReturned == id_result.kind # "None"

\* C8: Id::new(s) succeeds exactly when s is not empty and every code point
\* of s is an ASCII letter or an underscore; the Id returned has the text s.
C8_IdValid ==
    IdReturned =>
       /\ id_result.kind = "Ok" <=>
             /\ Len(id_input) > 0
             /\ \A p \in 1..Len(id_input) :
                   id_input[p] \in AsciiLetters \cup {"_"}
       /\ id_result.kind = "Ok" => as_str(id_result.id) = id_input

\* a digit that is not the first code point is rejected
C8_Witness ==
    /\ id_input = <<"u", "s", "i", "z", "e", "8">>
    /\ id_result.kind = "Err"

\* C9: when Id::new(s) fails, the error is Empty for the empty text and
\* otherwise InvalidCodePoint with the first code point of s that is not an
\* ASCII letter or underscore and its index: 0 for "1abc", 2 for "my-type".
C9_IdError ==
    (IdReturned /\ id_result.kind = "Err") =>
       /\ id_input = <<>> => id_result.error = [kind |-> "Empty"]
       /\ id_input # <<>> =>
             \E p \in 1..Len(id_input) :
                /\ id_input[p] \notin AsciiLetters \cup {"_"}
                /\ \A q \in 1..(p - 1) : id_input[q] \in AsciiLetters \cup {"_"}
                /\ id_result.error = [kind |-> "InvalidCodePoint",
                                      code_point |-> id_input[p],
                                      index |-> p - 1]
       /\ id_input = <<"1", "a", "b", "c">> => id_result.error.index = 0
       /\ id_input = <<"m", "y", "-", "t", "y", "p", "e">> =>
             id_result.error.index = 2 /\ id_result.error.code_point = "-"

\* a text with two invalid code points: the first one is reported
C9_Witness ==
    /\ id_input = <<"a", "-", "1">>
    /\ id_result.kind = "Err"
    /\ id_result.error.kind = "InvalidCodePoint"
    /\ id_result.error.index = 1

\* C10: when the source fails while supplying line k, tokenize returns that
\* error and nothing else, and has asked the source for k lines, no more.
C10_InputErrorPropagates ==
    /\ ReadFails(source) => input_pos <= source.fail_at
    /\ (Returned /\ ReadFails(source)) =>
          /\ result = [kind |-> "Err", error |-> IoError(source)]
          /\ input_pos = source.fail_at

\* the second read fails after a token was scanned from the first line
C10_Witness ==
    /\ Returned /\ ReadFails(source) /\ source.fail_at = 2
    /\ mode = "fresh" /\ cache.tokens # <<>>
    /\ result.kind = "Err"

\* C11: no line the input layer hands to the tokenizer holds a line feed or
\* a carriage return.
C11_LinesHaveNoTerminators ==
    fetched.kind = "Some" =>
       \A p \in 1..Len(fetched.line) : fetched.line[p] \notin {"LF", "CR"}

\* the answers the Input of the current source gives before End
SourceItems == IntoInput(source)

\* C12: next_line returns Some for every line the source answers More for,
\* the empty ones too, and None only once the source answers End: when
\* tokenize leaves its loop all k lines of the source were returned.
C12_EndIsNotEmptyLine ==
    /\ fetched.kind = "Some" =>
          /\ input_pos \in 1..Len(SourceItems)
          /\ SourceItems[input_pos].kind = "More"
          /\ fetched.line_number >= FIRST_NUMBER
    /\ pc = "return" =>
          /\ fetched = None
          /\ input_pos = Len(SourceItems)
          /\ \A k \in 1..Len(SourceItems) : SourceItems[k].kind = "More"

\* the end of a source of two lines or more, one of them empty
C12_Witness ==
    /\ pc = "return"
    /\ input_pos >= 2
    /\ \E k \in 1..Len(SourceItems) : SourceItems[k].line = <<>>

\* the lines Wrapper::next_line has returned in the current call
LinesReturned == IF fetched.kind = "Err" THEN input_pos - 1 ELSE input_pos

\* C18: the k-th line next_line returns carries the line number k, and the
\* line counter is FIRST_NUMBER plus the lines returned: a call that returns
\* the end of the input or an error leaves it as it was.
C18_LineNumbers ==
    pc # "idle" =>
       /\ current_line = FIRST_NUMBER + LinesReturned
       /\ fetched.kind = "Some" =>
             fetched.line_number = FIRST_NUMBER + (LinesReturned - 1)

\* an empty second line, numbered 2, and the error of the third read
C18_Witness ==
    /\ pc = "done" /\ fetched.kind = "Err"
    /\ input_pos = 3 /\ current_line = 3
    /\ SourceItems[2].kind = "More" /\ SourceItems[2].line = <<>>

\* C20: the text next_line returns is exactly the current line of the
\* source, whatever the buffer held before the read, and the buffer is
\* empty once next_line has returned the end of the input or an error.
C20_BufferIsCurrentLine ==
    /\ (pc \in {"scan", "end_line", "next_line"} /\ fetched.kind = "Some") =>
          /\ fetched.line = SourceItems[input_pos].line
          /\ Storage.line_buffer = fetched.line
    /\ (pc = "return" \/ (pc = "done" /\ result.kind # "Panic" /\ mode # "none")) =>
          Storage.line_buffer = <<>>

\* the second line of a source is returned, shorter than the first, by a
\* call that reused a Cache whose line buffer was not empty
C20_Witness ==
    /\ pc = "scan" /\ mode = "reuse" /\ stale_line # <<>>
    /\ input_pos = 2
    /\ Len(SourceItems[1].line) > Len(fetched.line)
    /\ fetched.line # <<>>

\* C13: increment_number leaves the number equal to its old value plus
\* one, or panics when the old value is the largest one; it never leaves a
\* number that is zero, wrapped around or unchanged.
C13_IncrementChecked ==
    /\ number \in 1..UsizeMax
    /\ num_status.kind = "Ok" =>
          number = num_before + 1 /\ num_status.value = number
    /\ num_status.kind = "Panic" => num_before = UsizeMax /\ number = num_before
    /\ (num_status.kind # "New" /\ num_before = UsizeMax) =>
          num_status.kind = "Panic"

\* the largest number is incremented in a build without overflow checks
C13_Witness ==
    /\ num_build = "release"
    /\ num_before = UsizeMax
    /\ num_status = [kind |-> "Panic", message |-> "location number overflowed"]

\* the code points of its line a cursor was advanced over
Consumed == SubSeq(cur_line, 1, Len(cur_line) - Len(cur.remaining))

\* C17: the offset of a cursor is the offset it was created with plus the
\* UTF-8 lengths of the code points it was advanced over: the offset of the
\* first byte of the next code point.
C17_OffsetsAreBoundaries ==
    cur_lines >= 1 => cur.byte_offset = cur_start + ByteLen(Consumed)

\* C19: a cursor created for a line has column FIRST_NUMBER, and after it
\* was advanced over k code points it has column k + 1.
C19_ColumnCountsCodePoints ==
    cur_lines >= 1 => cur.column_number = FIRST_NUMBER + Len(Consumed)

\* the cursor of a second line, created after a line of two code points or
\* more, advanced over two code points, one of them of two bytes
C19_Witness ==
    /\ cur_lines = 2 /\ cur_start >= 2
    /\ Len(Consumed) = 2
    /\ \E p \in 1..Len(Consumed) : Consumed[p] = "E_ACUTE"
    /\ cur.column_number = 3

\* C16: once a tokenize call that was given a Cache has returned, the
\* token sequence and the line buffer of the Cache are empty.
C16_CacheEmptied ==
    (Returned /\ mode # "none" /\ result.kind \in {"Ok", "Err"}) =>
       cache.tokens = <<>> /\ cache.line_buffer = <<>>

\* a tokenize call is running
Running == pc \in {"next_line", "scan", "end_line", "return"}

\* C15: a tokenize call on a finite source of recognized symbols and line
\* breaks ends: every line that is being scanned is left, and the call
\* returns an Output, having requested each line of the source once (one
\* request for each line, then the one that End answers).
C15_Terminates ==
    /\ (pc \in {"scan", "end_line"}) ~> (pc = "next_line")
    /\ Running ~> (Returned /\ result.kind = "Ok")
    /\ [](Returned => /\ result.kind = "Ok"
                      /\ input_pos = Len(SourceItems)
                      /\ current_line = FIRST_NUMBER + Len(SourceItems))

\* a call has returned the Output of a source of two lines or more, one of
\* them with symbols left after the first
C15_Witness ==
    /\ ReturnedOk
    /\ Len(SourceItems) >= 2 /\ input_pos = Len(SourceItems)
    /\ \E k \in 1..Len(SourceItems) : Len(SourceItems[k].line) >= 2

\* the calls of a trace that are calls of e
CallsOf(tr, e) == {i \in 1..Len(tr) : tr[i].from = "caller" /\ tr[i].ev = e}

\* the indent level at entry i of a trace: the indent calls before it less
\* the dedent calls before it, as a usize
LevelAt(tr, i) ==
    LET up == Cardinality({j \in CallsOf(tr, "indent") : j < i})
        down == Cardinality({j \in CallsOf(tr, "dedent") : j < i})
    IN (up - down + down * 2 ^ UsizeBits) % (2 ^ UsizeBits)

\* the output lines of a trace: each starts at the construction (0) or at a
\* newline call and ends before the next newline call
LineStarts(tr) == {0} \cup CallsOf(tr, "newline")

LineEnd(tr, a) ==
    IF \E b \in CallsOf(tr, "newline") : b > a
    THEN CHOOSE b \in CallsOf(tr, "newline") :
            b > a /\ \A c \in CallsOf(tr, "newline") : c > a => b <= c
    ELSE Len(tr) + 1

\* entries of the line that starts at a: the writes of indentation, the
\* content written, the write calls
IndentsOf(tr, a) ==
    {i \in (a + 1)..(LineEnd(tr, a) - 1) :
        tr[i].ev = "fmt" /\ tr[i].from = "indentation"}

ContentsOf(tr, a) ==
    {i \in (a + 1)..(LineEnd(tr, a) - 1) :
        tr[i].ev = "fmt" /\ tr[i].from = "content"}

WritesOf(tr, a) ==
    {i \in (a + 1)..(LineEnd(tr, a) - 1) :
        tr[i].from = "caller" /\ tr[i].ev \in WriteOps}

\* the write that cut short the indentation at entry i returned an error
CutShort(tr, i) == i < Len(tr) /\ tr[i + 1].ev = "err"

\* indentation is written at most once on each line, before anything else
\* is written on it, as many units of four spaces as the indent level of
\* that moment (fewer only when a write of it failed); a line whose first
\* content was written at a level above 0 has it, a line without a write
\* call has none
IndentationRule(tr) ==
    \A a \in LineStarts(tr) :
       /\ Cardinality(IndentsOf(tr, a)) <= 1
       /\ \A i \in IndentsOf(tr, a) :
             /\ \A k \in ContentsOf(tr, a) : i < k
             /\ \/ tr[i].units = LevelAt(tr, i)
                \/ CutShort(tr, i) /\ tr[i].units < LevelAt(tr, i)
       /\ \A k \in ContentsOf(tr, a) :
             ((\A j \in ContentsOf(tr, a) : k <= j) /\ LevelAt(tr, k) > 0) =>
                \E i \in IndentsOf(tr, a) : tr[i].units = LevelAt(tr, k)
       /\ WritesOf(tr, a) = {} => IndentsOf(tr, a) = {}

\* no call was made on the Printer after a call that returned an error
NoCallAfterError(tr) == \A i \in 1..Len(tr) : tr[i].ev = "err" => i = Len(tr)

Printed ==
    ast.kind = "Tree" /\ ast_todo = <<>> /\ pr_status.kind \in {"New", "Ok"}

\* indent calls less dedent calls among the first n entries of a trace
Balance(tr, n) ==
    Cardinality({j \in CallsOf(tr, "indent") : j <= n})
    - Cardinality({j \in CallsOf(tr, "dedent") : j <= n})

\* C22: while a Tree is printed with a new Printer every dedent is preceded
\* by an indent of its own, so that the indent level never goes below 0 (no
\* dedent underflows or panics), and once the print has returned Ok the
\* indent level is 0 again.  (The trace of a state extends the traces of
\* the states before it, so the balance of every prefix is checked.)
C22_IndentBalanced ==
    /\ Balance(trace, Len(trace)) >= 0
    /\ pr_status.kind # "Panic"
    /\ printer.indent_level = Balance(trace, Len(trace))
    /\ Printed => printer.indent_level = 0

\* a tree whose blocks nest three deep, one of them an elif branch, was
\* printed to the end
C22_Witness ==
    /\ Printed
    /\ \E n \in 1..Len(trace) : Balance(trace, n) >= 3
    /\ \E n \in 1..Len(trace) :
          trace[n].from = "caller" /\ trace[n].text = <<"e", "l", "i", "f", "SP">>
    /\ Cardinality(CallsOf(trace, "dedent")) >= 3

====
